---------------------------- MODULE Spec2Model ----------------------------
(***************************************************************************)
(* sampro: a statistical call-stack sampling profiler (sampro/sampro.py).  *)
(*                                                                         *)
(* Spec     : one ThreadedSampler, its background loop (_run / sample),    *)
(*            and a foreground thread that calls start() and stop().       *)
(* CopySpec : Spec with the foreground thread also calling                 *)
(*            live_data_copy().  The loop and the foreground thread are    *)
(*            different Python threads, so sample() and live_data_copy()   *)
(*            interleave at statement granularity.                         *)
(* SigSpec  : several SignalSampler instances sharing the process-wide     *)
(*            signal handler slots and interval timers.                    *)
(***************************************************************************)
EXTENDS Integers, Sequences, FiniteSets, TLC

VARIABLES
    \* _BaseSampler fields of the ThreadedSampler instance
    rooted_leaf_counts, stack_counts, max_stacks, skipped_stack_samples,
    sample_count,
    \* ThreadedSampler fields
    started, stopping, spawned,
    \* the background thread: position in _run/sample and sample()'s locals
    pc, todo, frame, stack,
    \* the foreground thread: calls of start() and their outcome
    start_calls, start_raised, count_at_stop,
    \* the foreground thread inside live_data_copy() and what it returned
    rpc, items, copy_rooted, copy_stacks,
    \* history: the pairs of tables held at the pass boundaries so far
    boundaries,
    \* the last call of a view method since the last pass: its name, its
    \* argument and its return value
    view,
    \* threads that call start() on the ThreadedSampler at the same time:
    \* the position of each in start()
    caller_pc,
    \* SignalSampler instances and the process-wide signal state
    sig, handlers, itimer, main_pc, construct_raised

aggVars == <<rooted_leaf_counts, stack_counts, max_stacks,
             skipped_stack_samples, sample_count>>
thrVars == <<started, stopping, spawned, pc, todo, frame, stack,
             start_calls, start_raised, count_at_stop>>
rdVars  == <<rpc, items, copy_rooted, copy_stacks, boundaries, view,
             caller_pc>>
sigVars == <<sig, handlers, itimer, main_pc, construct_raised>>
vars    == <<aggVars, thrVars, rdVars, sigVars>>

-----------------------------------------------------------------------------
(* Bounds of the model *)

\* sampling passes a sampler performs before the timeout branch is cut off
MaxPasses == 2
\* max_stacks is configured to one of 0..MaxCap
MaxCap == 1
\* start() is called at most this many times on the ThreadedSampler
MaxStartCalls == 2

-----------------------------------------------------------------------------
(* The profiled program: code objects, frames, call chains *)

Code(name, file, first) ==
    [co_name |-> name, co_filename |-> file, co_firstlineno |-> first]

c_main == Code("main", "app.py", 1)
c_work == Code("work", "app.py", 5)
c_run  == Code("run", "lib.py", 1)

Frame(code, line) == [f_code |-> code, f_lineno |-> line]

\* Call chains a profiled thread can be found in, outermost frame first
\* (frame k+1 has frame k as its f_back).
ProgramChains ==
    { <<Frame(c_main, 2)>>,
      <<Frame(c_main, 3), Frame(c_work, 6)>>,
      <<Frame(c_run, 2), Frame(c_work, 6)>> }

\* Profiled threads; Self is the thread that executes sample().
Threads == {"t1", "t2"}
Self == "self"

None == "None"

\* Threads of the program that call start() on one ThreadedSampler.
Callers == {"c1", "c2", "c3"}

\* No view method has been called yet.
NoView == [op |-> None, arg |-> None, result |-> None]

-----------------------------------------------------------------------------
(* Dictionaries *)

EmptyDict == [x \in {} |-> 0]

DictSet(d, k, v) == [x \in (DOMAIN d) \cup {k} |-> IF x = k THEN v ELSE d[x]]

\* d.get(k, 0)
DictGet(d, k) == IF k \in DOMAIN d THEN d[k] ELSE 0

RECURSIVE SumValues(_)
SumValues(d) ==
    IF DOMAIN d = {} THEN 0
    ELSE LET k == CHOOSE x \in DOMAIN d : TRUE
         IN  d[k] + SumValues([x \in (DOMAIN d) \ {k} |-> d[x]])

RECURSIVE SumNested(_)
SumNested(d) ==
    IF DOMAIN d = {} THEN 0
    ELSE LET k == CHOOSE x \in DOMAIN d : TRUE
         IN  SumValues(d[k]) + SumNested([x \in (DOMAIN d) \ {k} |-> d[x]])

-----------------------------------------------------------------------------
(* _BaseSampler.sample: the body of the loop over the threads *)

\* An element of the flat stack tuple: a code object or a line number.
CodeEl(c) == [type |-> "code", val |-> c]
IntEl(n)  == [type |-> "int", val |-> n]

\* lines 53-57 and 59: walk f_back from the innermost frame, extending the
\* list with (f_code, f_lineno) of each frame; the result is a tuple.
RECURSIVE WalkStack(_)
WalkStack(chain) ==
    IF chain = <<>> THEN <<>>
    ELSE LET cur == chain[Len(chain)]
         IN  <<CodeEl(cur.f_code), IntEl(cur.f_lineno)>>
             \o WalkStack(SubSeq(chain, 1, Len(chain) - 1))

\* `last` when the walk ends: the frame whose f_back is None.
LastFrame(chain) == chain[1]

\* the frame the snapshot holds for the thread: its innermost frame.
TopFrame(chain) == chain[Len(chain)]

\* line 58: rooted_leaf_counts[last.f_code][(frame.f_code, frame.f_lineno)] += 1
\* (a defaultdict of defaultdict(int)).
RootedIncr(rlc, chain) ==
    LET root  == LastFrame(chain).f_code
        key   == <<TopFrame(chain).f_code, TopFrame(chain).f_lineno>>
        inner == IF root \in DOMAIN rlc THEN rlc[root] ELSE EmptyDict
    IN  DictSet(rlc, root, DictSet(inner, key, DictGet(inner, key) + 1))

\* Mutant: the cap is tested before the membership of the stack, so a known
\* stack is dropped once the table is past the cap.
StackIncr_capfirst(sc, skipped, max, stk) ==
    IF Cardinality(DOMAIN sc) > max
    THEN [stack_counts |-> sc, skipped |-> skipped + 1]
    ELSE [stack_counts |-> DictSet(sc, stk, DictGet(sc, stk) + 1),
          skipped |-> skipped]

\* lines 60-65: the new stack_counts and skipped_stack_samples.
StackIncr(sc, skipped, max, stk) ==
    IF stk \notin DOMAIN sc
    THEN [stack_counts |-> DictSet(sc, stk, 1),
          skipped |-> IF Cardinality(DOMAIN sc) > max
                      THEN skipped + 1 ELSE skipped]
    ELSE [stack_counts |-> DictSet(sc, stk, sc[stk] + 1),
          skipped |-> skipped]

-----------------------------------------------------------------------------
(* ThreadedSampler: start(), stop() on the foreground thread *)

\* Mutant: start() without the check of the flag.
AlreadyStarted_never == FALSE

\* line 163: if self.started
AlreadyStarted == started

\* lines 165-168: the flag is set and the background thread is started.
StartSpawn ==
    /\ start_calls < MaxStartCalls
    /\ ~AlreadyStarted
    /\ started' = TRUE
    /\ spawned' = spawned + 1
    /\ pc' = "wait"
    /\ start_calls' = start_calls + 1
    /\ start_raised' = None
    /\ UNCHANGED <<aggVars, stopping, todo, frame, stack, count_at_stop,
                   rdVars, sigVars>>

\* lines 163-164: raise ValueError
StartRaise ==
    /\ start_calls < MaxStartCalls
    /\ AlreadyStarted
    /\ start_calls' = start_calls + 1
    /\ start_raised' = "ValueError"
    /\ UNCHANGED <<aggVars, started, stopping, spawned, pc, todo, frame,
                   stack, count_at_stop, rdVars, sigVars>>

\* line 171: self.stopping.set(), which returns at once.  count_at_stop
\* records the sample_count the caller could read at its first stop().
Stop ==
    /\ stopping' = TRUE
    /\ count_at_stop' = IF stopping THEN count_at_stop ELSE sample_count
    /\ UNCHANGED <<aggVars, started, spawned, pc, todo, frame, stack,
                   start_calls, start_raised, rdVars, sigVars>>

-----------------------------------------------------------------------------
(* ThreadedSampler._run and _BaseSampler.sample on the background thread *)

\* line 174: stopping.wait(...) returns True, the loop ends.
RunStopped ==
    /\ pc = "wait"
    /\ stopping
    /\ pc' = "done"
    /\ UNCHANGED <<aggVars, started, stopping, spawned, todo, frame, stack,
                   start_calls, start_raised, count_at_stop, rdVars, sigVars>>

\* Mutant: a loop that sleeps and never looks at the event.
RunTimeout_deaf ==
    /\ pc = "wait"
    /\ sample_count < MaxPasses
    /\ pc' = "call"
    /\ UNCHANGED <<aggVars, started, stopping, spawned, todo, frame, stack,
                   start_calls, start_raised, count_at_stop, rdVars, sigVars>>

\* line 174: the wait times out with the event not set.
RunTimeout ==
    /\ pc = "wait"
    /\ ~stopping
    /\ sample_count < MaxPasses
    /\ pc' = "call"
    /\ UNCHANGED <<aggVars, started, stopping, spawned, todo, frame, stack,
                   start_calls, start_raised, count_at_stop, rdVars, sigVars>>

\* Mutant: the counter is assigned instead of incremented.
CountPass_assign(n) == 1

\* line 47: self.sample_count += 1
CountPass(n) == n + 1

\* lines 47-50: the pass begins; sys._current_frames() holds the frame of
\* the running thread (sampler_frame) and of every other live thread.
SampleBegin ==
    /\ pc = "call"
    /\ sample_count' = CountPass(sample_count)
    /\ \E live \in SUBSET Threads : todo' = {Self} \cup live
    /\ pc' = "loop"
    /\ UNCHANGED <<rooted_leaf_counts, stack_counts, max_stacks,
                   skipped_stack_samples, started, stopping, spawned, frame,
                   stack, start_calls, start_raised, count_at_stop, rdVars,
                   sigVars>>

\* Mutant: the sampler's own frame is not recognised.
IsSamplerFrame_never(t) == FALSE

\* line 51: frame is sampler_frame
IsSamplerFrame(t) == t = Self

\* lines 51-52: continue
SampleSkip ==
    /\ pc = "loop"
    /\ \E t \in todo :
        /\ IsSamplerFrame(t)
        /\ todo' = todo \ {t}
    /\ UNCHANGED <<aggVars, started, stopping, spawned, pc, frame, stack,
                   start_calls, start_raised, count_at_stop, rdVars, sigVars>>

\* lines 53-59: the thread's chain is walked and its leaf is counted.
SampleWalk ==
    /\ pc = "loop"
    /\ \E t \in todo, chain \in ProgramChains :
        /\ ~IsSamplerFrame(t)
        /\ todo' = todo \ {t}
        /\ frame' = chain
        /\ stack' = WalkStack(chain)
        /\ rooted_leaf_counts' = RootedIncr(rooted_leaf_counts, chain)
    /\ pc' = "count"
    /\ UNCHANGED <<stack_counts, max_stacks, skipped_stack_samples,
                   sample_count, started, stopping, spawned, start_calls,
                   start_raised, count_at_stop, rdVars, sigVars>>

\* lines 60-65: the stack is counted.
SampleCount ==
    /\ pc = "count"
    /\ LET r == StackIncr(stack_counts, skipped_stack_samples, max_stacks,
                          stack)
       IN  /\ stack_counts' = r.stack_counts
           /\ skipped_stack_samples' = r.skipped
    /\ frame' = <<>>
    /\ stack' = <<>>
    /\ pc' = "loop"
    /\ UNCHANGED <<rooted_leaf_counts, max_stacks, sample_count, started,
                   stopping, spawned, todo, start_calls, start_raised,
                   count_at_stop, rpc, items, copy_rooted, copy_stacks,
                   boundaries, view, caller_pc, sigVars>>

\* line 50: the loop over the snapshot is exhausted, sample() returns.
SampleEnd ==
    /\ pc = "loop"
    /\ todo = {}
    /\ pc' = "wait"
    /\ boundaries' = boundaries \cup {<<rooted_leaf_counts, stack_counts>>}
    /\ UNCHANGED <<aggVars, started, stopping, spawned, todo, frame, stack,
                   start_calls, start_raised, count_at_stop, rpc, items,
                   copy_rooted, copy_stacks, view, caller_pc, sigVars>>

-----------------------------------------------------------------------------
(* _BaseSampler.live_data_copy on the foreground thread.  No lock is taken: *)
(* data_lock (line 157) is created and never acquired.                      *)

\* line 69: .items() lists the roots and their (live) inner dictionaries.
CopyItems ==
    /\ rpc \in {"idle", "returned"}
    /\ items' = DOMAIN rooted_leaf_counts
    /\ copy_rooted' = EmptyDict
    /\ copy_stacks' = EmptyDict
    /\ rpc' = "loop"
    /\ UNCHANGED <<aggVars, thrVars, boundaries, view, caller_pc, sigVars>>

\* line 70: rooted_leaf_counts[k] = dict(v)
CopyInner ==
    /\ rpc = "loop"
    /\ \E k \in items :
        /\ copy_rooted' = DictSet(copy_rooted, k, rooted_leaf_counts[k])
        /\ items' = items \ {k}
    /\ UNCHANGED <<aggVars, thrVars, rpc, copy_stacks, boundaries, view,
                   caller_pc, sigVars>>

\* line 71: return rooted_leaf_counts, dict(self.stack_counts)
CopyReturn ==
    /\ rpc = "loop"
    /\ items = {}
    /\ copy_stacks' = stack_counts
    /\ rpc' = "returned"
    /\ UNCHANGED <<aggVars, thrVars, items, copy_rooted, boundaries, view,
                   caller_pc, sigVars>>

-----------------------------------------------------------------------------
(* Spec: one ThreadedSampler, its loop and the foreground thread *)

SigIdle ==
    /\ sig = EmptyDict
    /\ handlers = EmptyDict
    /\ itimer = EmptyDict
    /\ main_pc = None
    /\ construct_raised = None

\* lines 39-44 and 154-159; max_stacks is then configured by the caller.
Init ==
    /\ rooted_leaf_counts = EmptyDict
    /\ stack_counts = EmptyDict
    /\ max_stacks \in 0..MaxCap
    /\ skipped_stack_samples = 0
    /\ sample_count = 0
    /\ started = FALSE
    /\ stopping = FALSE
    /\ spawned = 0
    /\ pc = "none"
    /\ todo = {}
    /\ frame = <<>>
    /\ stack = <<>>
    /\ start_calls = 0
    /\ start_raised = None
    /\ count_at_stop = 0
    /\ rpc = "idle"
    /\ items = {}
    /\ copy_rooted = EmptyDict
    /\ copy_stacks = EmptyDict
    /\ boundaries = {<<EmptyDict, EmptyDict>>}
    /\ view = NoView
    /\ caller_pc = [c \in Callers |-> "idle"]
    /\ SigIdle

Loop ==
    \/ RunStopped
    \/ RunTimeout
    \/ SampleBegin
    \/ SampleSkip
    \/ SampleWalk
    \/ SampleCount
    \/ SampleEnd

Next ==
    \/ StartSpawn
    \/ StartRaise
    \/ Stop
    \/ Loop

Spec == Init /\ [][Next]_vars

\* The background thread is scheduled fairly.
FairSpec == Spec /\ WF_vars(Loop)

\* CopySpec: the same, with the foreground thread also calling
\* live_data_copy() while the loop runs.
CopyNext ==
    \/ Next
    \/ CopyItems
    \/ CopyInner
    \/ CopyReturn

CopySpec == Init /\ [][CopyNext]_vars

-----------------------------------------------------------------------------
(* SignalSampler: the instances, the handler slots and the interval timers *)

Instances == {"a", "b"}

\* values given for `which` at construction
WhichInputs == {"real", "prof", "cpu"}

\* lines 206-210: the dictionary of the timer classes
WhichTable ==
    [real |-> "ITIMER_REAL", virtual |-> "ITIMER_VIRTUAL",
     prof |-> "ITIMER_PROF"]

\* lines 215-218: the signal each timer class delivers
SignalTable ==
    [ITIMER_REAL |-> "SIGALRM", ITIMER_VIRTUAL |-> "SIGVTALRM",
     ITIMER_PROF |-> "SIGPROF"]

Timers  == {WhichTable[w] : w \in DOMAIN WhichTable}
Signals == {SignalTable[t] : t \in DOMAIN SignalTable}

\* line 42: self.max_stacks = 10000
DefaultMaxStacks == 10000

\* lines 39-44: the tables of a new sampler
NewAgg ==
    [rooted_leaf_counts |-> EmptyDict, stack_counts |-> EmptyDict,
     max_stacks |-> DefaultMaxStacks, skipped_stack_samples |-> 0,
     sample_count |-> 0]

\* an instance that does not exist (yet); `stopped` records that a call of
\* stop() on the instance has run to its end.
NoSampler ==
    [constructed |-> FALSE, which |-> None, signal |-> None,
     started |-> FALSE, stopping |-> FALSE, stopped |-> FALSE,
     rollback |-> None, agg |-> NewAgg]

\* What signal.getsignal() can return before any sampler is started: the
\* default action, ignore, or None for a handler not installed from Python.
InitialHandlers == {"SIG_DFL", "SIG_IGN", None}

MainIdle == [at |-> "idle", i |-> None]

\* lines 50-65: the loop of sample() over a snapshot, a function from the
\* thread ids to call chains (the running thread's frame is sampler_frame).
RECURSIVE SampleThreads(_, _)
SampleThreads(agg, snapshot) ==
    IF DOMAIN snapshot = {} THEN agg
    ELSE LET t    == CHOOSE x \in DOMAIN snapshot : TRUE
             rest == [x \in (DOMAIN snapshot) \ {t} |-> snapshot[x]]
         IN  IF IsSamplerFrame(t) THEN SampleThreads(agg, rest)
             ELSE LET r == StackIncr(agg.stack_counts,
                                     agg.skipped_stack_samples,
                                     agg.max_stacks, WalkStack(snapshot[t]))
                  IN  SampleThreads(
                        [agg EXCEPT
                           !.rooted_leaf_counts = RootedIncr(@, snapshot[t]),
                           !.stack_counts = r.stack_counts,
                           !.skipped_stack_samples = r.skipped],
                        rest)

\* lines 46-65: one whole pass of sample()
SamplePass(agg, snapshot) ==
    SampleThreads([agg EXCEPT !.sample_count = CountPass(@)], snapshot)

\* What sys._current_frames() can hold when the handler runs on the main
\* thread: the main thread, whose current frame is the one of sample(), and
\* the other live threads.
Snapshots ==
    UNION { [{Self} \cup live -> ProgramChains] : live \in SUBSET {"t1"} }

\* lines 211-213: which is none of 'real', 'virtual', 'prof'
ConstructBadWhich(i, w) ==
    /\ main_pc = MainIdle
    /\ ~sig[i].constructed
    /\ w \notin DOMAIN WhichTable
    /\ construct_raised' = "ValueError"
    /\ UNCHANGED <<aggVars, thrVars, rdVars, sig, handlers, itimer, main_pc>>

\* line 219: signal.getsignal(self.signal) not in (None, SIG_DFL, SIG_IGN)
HandlerAttached(s) == handlers[s] \notin {None, "SIG_DFL", "SIG_IGN"}

\* lines 219-220: raise EnvironmentError
ConstructConflict(i, w) ==
    /\ main_pc = MainIdle
    /\ ~sig[i].constructed
    /\ w \in DOMAIN WhichTable
    /\ HandlerAttached(SignalTable[WhichTable[w]])
    /\ construct_raised' = "EnvironmentError"
    /\ UNCHANGED <<aggVars, thrVars, rdVars, sig, handlers, itimer, main_pc>>

\* lines 204-222: the instance exists, not started
Construct(i, w) ==
    /\ main_pc = MainIdle
    /\ ~sig[i].constructed
    /\ w \in DOMAIN WhichTable
    /\ ~HandlerAttached(SignalTable[WhichTable[w]])
    /\ sig' = [sig EXCEPT ![i] =
                 [constructed |-> TRUE, which |-> WhichTable[w],
                  signal |-> SignalTable[WhichTable[w]],
                  started |-> FALSE, stopping |-> FALSE,
                  stopped |-> FALSE, rollback |-> None, agg |-> NewAgg]]
    /\ construct_raised' = None
    /\ UNCHANGED <<aggVars, thrVars, rdVars, handlers, itimer, main_pc>>

\* start() without its test of the started flag
SigAlreadyStarted_never(i) == FALSE

\* line 226: if self.started
SigAlreadyStarted(i) == sig[i].started

\* lines 226-227: start() on a started instance returns
SigStartAgain(i) ==
    /\ main_pc = MainIdle
    /\ sig[i].constructed
    /\ SigAlreadyStarted(i)
    /\ UNCHANGED vars

\* lines 226-228
SigStartBegin(i) ==
    /\ main_pc = MainIdle
    /\ sig[i].constructed
    /\ ~SigAlreadyStarted(i)
    /\ sig' = [sig EXCEPT ![i].started = TRUE]
    /\ main_pc' = [at |-> "install", i |-> i]
    /\ UNCHANGED <<aggVars, thrVars, rdVars, handlers, itimer,
                   construct_raised>>

\* line 229: self.rollback = signal.signal(self.signal, self._resample)
SigStartInstall(i) ==
    /\ main_pc = [at |-> "install", i |-> i]
    /\ sig' = [sig EXCEPT ![i].rollback = handlers[sig[i].signal]]
    /\ handlers' = [handlers EXCEPT ![sig[i].signal] = i]
    /\ main_pc' = [at |-> "arm", i |-> i]
    /\ UNCHANGED <<aggVars, thrVars, rdVars, itimer, construct_raised>>

\* line 230: signal.setitimer(self.which, ...)
SigStartArm(i) ==
    /\ main_pc = [at |-> "arm", i |-> i]
    /\ itimer' = [itimer EXCEPT ![sig[i].which] = TRUE]
    /\ main_pc' = MainIdle
    /\ UNCHANGED <<aggVars, thrVars, rdVars, sig, handlers, construct_raised>>

\* lines 233-234: stop() on an instance that was not started returns
SigStopNotStarted(i) ==
    /\ main_pc = MainIdle
    /\ sig[i].constructed
    /\ ~sig[i].started
    /\ UNCHANGED vars

\* lines 233-235
SigStopBegin(i) ==
    /\ main_pc = MainIdle
    /\ sig[i].constructed
    /\ sig[i].started
    /\ sig' = [sig EXCEPT ![i].stopping = TRUE]
    /\ main_pc' = [at |-> "disarm", i |-> i]
    /\ UNCHANGED <<aggVars, thrVars, rdVars, handlers, itimer,
                   construct_raised>>

\* line 236: signal.setitimer(self.which, 0)
SigStopDisarm(i) ==
    /\ main_pc = [at |-> "disarm", i |-> i]
    /\ itimer' = [itimer EXCEPT ![sig[i].which] = FALSE]
    /\ main_pc' = [at |-> "restore", i |-> i]
    /\ UNCHANGED <<aggVars, thrVars, rdVars, sig, handlers, construct_raised>>

\* signal.signal(signum, handler) accepts SIG_IGN, SIG_DFL or a callable
\* and raises TypeError for anything else, such as None.
SignalAccepts(h) == h # None

\* line 237: signal.signal(self.signal, self.rollback); with a rollback
\* that signal.signal() refuses, stop() ends by the TypeError and the slot
\* keeps what it holds.
SigStopRestore(i) ==
    /\ main_pc = [at |-> "restore", i |-> i]
    /\ handlers' = IF SignalAccepts(sig[i].rollback)
                   THEN [handlers EXCEPT ![sig[i].signal] = sig[i].rollback]
                   ELSE handlers
    /\ sig' = [sig EXCEPT ![i].stopped = TRUE]
    /\ main_pc' = MainIdle
    /\ UNCHANGED <<aggVars, thrVars, rdVars, itimer, construct_raised>>

\* _resample without its test of the stopping flag
StopInProgress_never(h) == FALSE

\* line 240: if self.stopping
StopInProgress(h) == sig[h].stopping

\* The timer t expires (it is one-shot) and its signal is delivered to the
\* main thread, between two of its bytecodes; the handler runs to its end.
\* lines 239-243: _resample of the instance in the handler slot.
Deliver(t) ==
    /\ itimer[t]
    /\ LET h == handlers[SignalTable[t]]
       IN  IF h \in Instances /\ ~StopInProgress(h)
           THEN /\ sig[h].agg.sample_count < MaxPasses
                /\ \E snapshot \in Snapshots :
                     sig' = [sig EXCEPT ![h].agg = SamplePass(@, snapshot)]
                /\ itimer' = [itimer EXCEPT ![t] = FALSE,
                                            ![sig[h].which] = TRUE]
           ELSE /\ itimer' = [itimer EXCEPT ![t] = FALSE]
                /\ sig' = sig
    /\ UNCHANGED <<aggVars, thrVars, rdVars, handlers, main_pc,
                   construct_raised>>

\* The main thread goes on with the call it is in.
MainStep ==
    \E i \in Instances :
        \/ SigStartInstall(i)
        \/ SigStartArm(i)
        \/ SigStopDisarm(i)
        \/ SigStopRestore(i)

Timer == \E t \in Timers : Deliver(t)

SigInit ==
    /\ rooted_leaf_counts = EmptyDict
    /\ stack_counts = EmptyDict
    /\ max_stacks = DefaultMaxStacks
    /\ skipped_stack_samples = 0
    /\ sample_count = 0
    /\ started = FALSE
    /\ stopping = FALSE
    /\ spawned = 0
    /\ pc = "none"
    /\ todo = {}
    /\ frame = <<>>
    /\ stack = <<>>
    /\ start_calls = 0
    /\ start_raised = None
    /\ count_at_stop = 0
    /\ rpc = "idle"
    /\ items = {}
    /\ copy_rooted = EmptyDict
    /\ copy_stacks = EmptyDict
    /\ boundaries = {<<EmptyDict, EmptyDict>>}
    /\ view = NoView
    /\ caller_pc = [c \in Callers |-> "idle"]
    /\ sig = [i \in Instances |-> NoSampler]
    /\ \E h \in InitialHandlers : handlers = [s \in Signals |-> h]
    /\ itimer = [t \in Timers |-> FALSE]
    /\ main_pc = MainIdle
    /\ construct_raised = None

SigNext ==
    \/ \E i \in Instances, w \in WhichInputs :
          \/ ConstructBadWhich(i, w)
          \/ ConstructConflict(i, w)
          \/ Construct(i, w)
    \/ \E i \in Instances :
          \/ SigStartAgain(i)
          \/ SigStartBegin(i)
          \/ SigStopNotStarted(i)
          \/ SigStopBegin(i)
    \/ MainStep
    \/ Timer

SigSpec == SigInit /\ [][SigNext]_vars

\* The main thread goes on running and an armed timer expires.
SigFairSpec == SigSpec /\ WF_vars(MainStep) /\ WF_vars(Timer)

-----------------------------------------------------------------------------
(* Properties of the sampling pass (Spec) *)

\* The step that executes lines 47-50 (the pass begins), lines 53-59 (a
\* thread is walked) and lines 60-65 (its stack is counted).
PassBegins   == pc = "call" /\ pc' = "loop"
ThreadWalked == pc = "loop" /\ pc' = "count"
StackCounted == pc = "count" /\ pc' = "loop"

\* Threads of the snapshot, other than the one running sample(), that the
\* pass has not reached yet.
Pending == Cardinality({t \in todo : t # Self})

\* C1: the number of distinct keys of stack_counts never exceeds max_stacks.
C1_KeysWithinMax == Cardinality(DOMAIN stack_counts) <= max_stacks

\* C2: a key of stack_counts is never removed and its count never decreases;
\* the count of a key changes only in a step that counts a thread showing
\* exactly that stack, and such a step adds exactly 1 to it, whatever the
\* size of the table, and leaves skipped_stack_samples alone.
C2_KnownStackCounted ==
    [][ /\ \A s \in DOMAIN stack_counts :
             /\ s \in DOMAIN stack_counts'
             /\ stack_counts'[s] >= stack_counts[s]
             /\ stack_counts'[s] # stack_counts[s]
                   => StackCounted /\ stack = s
        /\ (StackCounted /\ stack \in DOMAIN stack_counts)
              => /\ stack_counts'[stack] = stack_counts[stack] + 1
                 /\ skipped_stack_samples' = skipped_stack_samples
      ]_vars

\* C2 witness: a known stack was counted again with the table past the cap.
C2_Witness ==
    /\ Cardinality(DOMAIN stack_counts) > max_stacks
    /\ \E s \in DOMAIN stack_counts : stack_counts[s] >= 2

\* C3: with max_stacks = 1 and one stack shape already sampled, counting a
\* thread that shows another stack shape leaves skipped_stack_samples > 0.
C3_SecondShapeSkipped ==
    [][ ( /\ max_stacks = 1
          /\ StackCounted
          /\ DOMAIN stack_counts # {}
          /\ stack \notin DOMAIN stack_counts )
        => skipped_stack_samples' > 0 ]_vars

\* C4: sample_count starts at 0, the beginning of a pass adds exactly 1 to
\* it and no other step changes it: it is the number of passes.
C4_CountIsPasses ==
    /\ sample_count = 0
    /\ [][ IF PassBegins THEN sample_count' = sample_count + 1
                         ELSE sample_count' = sample_count ]_vars

\* C4 witness: two passes that sampled three threads in all.
C4_Witness ==
    /\ pc = "wait"
    /\ sample_count = 2
    /\ SumNested(rooted_leaf_counts) = 3

\* C5: over a pass the sum of rooted_leaf_counts grows by the number of
\* threads of the snapshot other than the one running sample() (the sum plus
\* the threads still pending is constant once the pass has begun); walking a
\* thread adds 1 to [outermost code][(innermost code, innermost line)], and
\* no entry is removed or decreases.
C5_RootedSum ==
    [][ /\ PassBegins => rooted_leaf_counts' = rooted_leaf_counts
        /\ ~PassBegins =>
              SumNested(rooted_leaf_counts') + Pending'
                 = SumNested(rooted_leaf_counts) + Pending
        /\ \A r \in DOMAIN rooted_leaf_counts :
             /\ r \in DOMAIN rooted_leaf_counts'
             /\ \A k \in DOMAIN rooted_leaf_counts[r] :
                  /\ k \in DOMAIN rooted_leaf_counts'[r]
                  /\ rooted_leaf_counts'[r][k] >= rooted_leaf_counts[r][k]
        /\ ThreadWalked =>
             LET outer == frame'[1]
                 inner == frame'[Len(frame')]
                 r == outer.f_code
                 k == <<inner.f_code, inner.f_lineno>>
                 old == IF r \in DOMAIN rooted_leaf_counts
                           /\ k \in DOMAIN rooted_leaf_counts[r]
                        THEN rooted_leaf_counts[r][k] ELSE 0
             IN  /\ r \in DOMAIN rooted_leaf_counts'
                 /\ k \in DOMAIN rooted_leaf_counts'[r]
                 /\ rooted_leaf_counts'[r][k] = old + 1
      ]_vars

\* C5 witness: one finished pass over two profiled threads and the sampler.
C5_Witness ==
    /\ pc = "wait"
    /\ sample_count = 1
    /\ SumNested(rooted_leaf_counts) = 2

\* C6: what live_data_copy() returns is the pair of tables as they were at
\* one pass boundary.
C6_CopyIsBoundary ==
    rpc = "returned" => <<copy_rooted, copy_stacks>> \in boundaries

\* C7: at most one background loop is ever spawned; a start() on a started
\* instance raises and leaves the sampler's state as it was.
C7_SecondStartFails ==
    /\ [](spawned <= 1)
    /\ [](start_calls >= 2 => start_raised = "ValueError")
    /\ [][ (start_calls' # start_calls /\ started)
           => /\ start_raised' = "ValueError"
              /\ UNCHANGED <<aggVars, started, stopping, spawned, pc, todo,
                             frame, stack>> ]_vars

\* C7 witness: a second start() after stop(), with samples recorded.
C7_Witness ==
    /\ start_calls = 2
    /\ start_raised = "ValueError"
    /\ stopping
    /\ sample_count >= 1

\* C8: stop() is always possible; once it has been called at most one more
\* pass begins, the loop ends, and after that sample_count and the tables
\* keep their values.
C8_StopEndsSampling ==
    /\ [](ENABLED Stop)
    /\ [](stopping => sample_count <= count_at_stop + 1)
    /\ ((started /\ stopping) ~> (pc = "done"))
    /\ [][ pc = "done" => (pc' = "done" /\ UNCHANGED aggVars) ]_vars

\* C8 witness: the loop has ended after a pass that began after stop().
C8_Witness ==
    /\ pc = "done"
    /\ sample_count = count_at_stop + 1
    /\ SumNested(rooted_leaf_counts) >= 1

-----------------------------------------------------------------------------
(* Properties of the trigger strategies *)

\* A SignalSampler on which start() was called and stop() was not.
SigRunning(i) == sig[i].constructed /\ sig[i].started /\ ~sig[i].stopping

\* A running SignalSampler whose handler is the one in the slot of its signal.
SigRegistered(i) == SigRunning(i) /\ handlers[sig[i].signal] = i

\* Some sampler has performed all the passes the model allows it.
SigBoundReached == \E j \in Instances : sig[j].agg.sample_count = MaxPasses

\* C9: a started sampler on which stop() is not called keeps sampling: its
\* sample_count goes past every value it has (as long as no sampler has
\* reached the bound of the model).
C9_KeepsSampling ==
    \A i \in Instances : \A n \in 0..(MaxPasses - 1) :
        (SigRunning(i) /\ sig[i].agg.sample_count = n)
            ~> \/ sig[i].agg.sample_count > n
               \/ sig[i].stopping
               \/ SigBoundReached

\* The part of C9 about the ThreadedSampler, which holds under FairSpec.
C9_ThreadedKeepsSampling ==
    \A n \in 0..(MaxPasses - 1) :
        (started /\ sample_count = n) ~> (sample_count > n \/ stopping)

\* C10: an instance that is running with its handler installed keeps the
\* handler slot of its signal and its armed timer until its own stop().
C10_NoInterference ==
    [][ \A i \in Instances :
            (SigRegistered(i) /\ ~sig'[i].stopping)
               => /\ handlers'[sig[i].signal] = i
                  /\ itimer[sig[i].which] => itimer'[sig[i].which]
      ]_vars

\* A call of stop() on instance i is at the given line.
InStop(i, at) == main_pc = [at |-> at, i |-> i]

\* C11: when stop() of a started instance ends, the timer of its class is
\* disarmed and the handler slot of its signal holds the handler that was
\* installed just before the instance's start() (its rollback).
C11_StopRestores ==
    [][ \A i \in Instances :
            (InStop(i, "restore") /\ main_pc' = MainIdle)
               => /\ ~itimer'[sig[i].which]
                  /\ handlers'[sig[i].signal] = sig[i].rollback
      ]_vars

\* C12: a call of stop() on an instance whose earlier stop() has ended
\* changes neither the timers nor the handler slots.
C12_SecondStopNoOp ==
    [][ \A i \in Instances :
            (sig[i].stopped /\ (InStop(i, "disarm") \/ InStop(i, "restore")))
               => /\ itimer' = itimer
                  /\ handlers' = handlers
      ]_vars

\* The handler of instance i is invoked while the stopping flag of i is set.
DeliverWhileStopping(i) ==
    /\ sig[i].stopping
    /\ handlers[sig[i].signal] = i
    /\ Deliver(sig[i].which)

\* The step is the setitimer() of a start() of an instance other than i.
ArmedByOther(i) == main_pc.at = "arm" /\ main_pc.i # i

\* C13 as stated: a handler invocation once stop() has begun neither samples
\* nor re-arms the timer, and once stop() has ended the counters and tables
\* of the instance never change and the timer of its class is never armed.
C13_QuietAndDisarmed ==
    [][ \A i \in Instances :
           /\ DeliverWhileStopping(i)
                 => sig'[i].agg = sig[i].agg /\ ~itimer'[sig[i].which]
           /\ sig[i].stopped
                 => sig'[i].agg = sig[i].agg /\ ~itimer'[sig[i].which]
      ]_vars

\* C13, amended: a handler invocation once stop() has begun neither samples
\* nor re-arms the timer, and once stop() has ended the counters and tables
\* of the instance never change and the timer of its class is armed again
\* only by the start() of another instance.
C13_QuietAfterStop ==
    [][ \A i \in Instances :
           /\ DeliverWhileStopping(i)
                 => sig'[i].agg = sig[i].agg /\ ~itimer'[sig[i].which]
           /\ sig[i].stopped
                 => /\ sig'[i].agg = sig[i].agg
                    /\ (itimer'[sig[i].which] /\ ~itimer[sig[i].which])
                          => ArmedByOther(i)
      ]_vars

\* The signal interrupted the first stop() of an instance that had sampled,
\* after the flag was set and before the timer was disarmed by stop().
C13_Witness ==
    \E i \in Instances :
        /\ InStop(i, "disarm")
        /\ ~sig[i].stopped
        /\ handlers[sig[i].signal] = i
        /\ ~itimer[sig[i].which]
        /\ sig[i].agg.sample_count > 0

\* A call of start() or stop() can begin: the main thread is in no call.
MainIsIdle == main_pc = MainIdle

-----------------------------------------------------------------------------
(* The views over the tables: lines 73-141.  Each view reads the tables   *)
(* through live_data_copy(); in ViewSpec one thread calls sample() and the *)
(* views in turn, so the copy is the pair of tables as they are.          *)

\* passes of sample() before the views are called
MaxViewPasses == 2

\* a code object of app.py that begins on a line of work()
c_lambda == Code("<lambda>", "app.py", 6)

\* The call chains of ViewSpec: also work() found at another line, and the
\* lambda that work() calls on its line 6.
ViewChains ==
    ProgramChains \cup
    { <<Frame(c_main, 3), Frame(c_work, 7)>>,
      <<Frame(c_main, 3), Frame(c_work, 6), Frame(c_lambda, 6)>> }

ViewSnapshots ==
    UNION { [{Self} \cup live -> ViewChains] : live \in SUBSET Threads }

\* arguments of rooted_samples_by_line
Filenames == {"app.py", "lib.py", "setup.py"}

\* Removal of one key from a dictionary, for the loops over .items()
DictWithout(d, k) == [x \in (DOMAIN d) \ {k} |-> d[x]]

\* lines 84-85: cur.setdefault(k, 0); cur[k] += count
AddCount(d, k, count) == DictSet(d, k, DictGet(d, k) + count)

\* lines 82-85: the loop over one root's leaf entries
RECURSIVE FileCounts(_, _)
FileCounts(counts, cur) ==
    IF DOMAIN counts = {} THEN cur
    ELSE LET key == CHOOSE x \in DOMAIN counts : TRUE
         IN  FileCounts(DictWithout(counts, key),
                        AddCount(cur, key[1].co_filename, counts[key]))

\* lines 73-87
rooted_samples_by_file(rlc) ==
    [root \in DOMAIN rlc |-> FileCounts(rlc[root], EmptyDict)]

\* lines 100-104: the loop over one root's leaf entries, in the order in
\* which the dictionary lists them (here: some order).
RECURSIVE LineCounts(_, _, _)
LineCounts(counts, filename, cur) ==
    IF DOMAIN counts = {} THEN cur
    ELSE LET key  == CHOOSE x \in DOMAIN counts : TRUE
             rest == DictWithout(counts, key)
         IN  IF key[1].co_filename # filename
             THEN LineCounts(rest, filename, cur)
             ELSE LineCounts(rest, filename, DictSet(cur, key[2], counts[key]))

\* lines 89-106
rooted_samples_by_line(rlc, filename) ==
    [root \in DOMAIN rlc |-> LineCounts(rlc[root], filename, EmptyDict)]

\* lines 116-118: the loop over one root's leaf entries
RECURSIVE LeafCounts(_, _)
LeafCounts(counts, line_samples) ==
    IF DOMAIN counts = {} THEN line_samples
    ELSE LET key == CHOOSE x \in DOMAIN counts : TRUE
         IN  LeafCounts(DictWithout(counts, key),
                        AddCount(line_samples, key, counts[key]))

\* lines 114-118: the loop over the roots
RECURSIVE LineSamples(_, _)
LineSamples(rlc, line_samples) ==
    IF DOMAIN rlc = {} THEN line_samples
    ELSE LET root == CHOOSE x \in DOMAIN rlc : TRUE
         IN  LineSamples(DictWithout(rlc, root),
                         LeafCounts(rlc[root], line_samples))

\* sorted() without reverse=True
SortsFirst_ascending(c, others) == \A o \in others : c <= o

\* lines 119-120: key=lambda v: v[1], reverse=True: an item of the greatest
\* count comes first.
SortsFirst(c, others) == \A o \in others : c >= o

\* lines 119-120: sorted(line_samples.items(), ...), a list of (key, count)
RECURSIVE SortedItems(_)
SortedItems(d) ==
    IF DOMAIN d = {} THEN <<>>
    ELSE LET k == CHOOSE x \in DOMAIN d :
                     SortsFirst(d[x], {d[y] : y \in DOMAIN d})
         IN  <<<<k, d[k]>>>> \o SortedItems(DictWithout(d, k))

\* lines 108-120
hotspots(rlc) == SortedItems(LineSamples(rlc, EmptyDict))

\* lines 132-137: the code objects of the flat tuple, each formatted as
\* root`filename`name; the line numbers are passed over.
RECURSIVE FlameElements(_, _, _)
FlameElements(stk, i, root) ==
    IF i > Len(stk) THEN <<>>
    ELSE IF stk[i].type = "int" THEN FlameElements(stk, i + 1, root)
    ELSE <<<<root, stk[i].val.co_filename, stk[i].val.co_name>>>>
         \o FlameElements(stk, i + 1, root)

\* lines 130 and 138: root = stack[-2].co_name; the key joins the elements.
FlameKey(stk) == FlameElements(stk, 1, stk[Len(stk) - 1].val.co_name)

\* flame_map[flame_key] = count in the place of lines 139-140
FlameAdd_assign(fm, key, count) == DictSet(fm, key, count)

\* lines 139-140: flame_map.setdefault(flame_key, 0); flame_map[flame_key] += count
FlameAdd(fm, key, count) == DictSet(fm, key, DictGet(fm, key) + count)

\* lines 129-140: the loop over the stacks
RECURSIVE FlameFold(_, _)
FlameFold(sc, fm) ==
    IF DOMAIN sc = {} THEN fm
    ELSE LET stk == CHOOSE x \in DOMAIN sc : TRUE
         IN  FlameFold(DictWithout(sc, stk),
                       FlameAdd(fm, FlameKey(stk), sc[stk]))

\* lines 122-141
flame_map(sc) == FlameFold(sc, EmptyDict)

\* lines 46-65: the program calls sample() itself; what the last view call
\* returned is kept until then.
ViewPass ==
    /\ sample_count < MaxViewPasses
    /\ \E snapshot \in ViewSnapshots :
          LET agg == SamplePass(
                        [rooted_leaf_counts |-> rooted_leaf_counts,
                         stack_counts |-> stack_counts,
                         max_stacks |-> max_stacks,
                         skipped_stack_samples |-> skipped_stack_samples,
                         sample_count |-> sample_count], snapshot)
          IN  /\ rooted_leaf_counts' = agg.rooted_leaf_counts
              /\ stack_counts' = agg.stack_counts
              /\ skipped_stack_samples' = agg.skipped_stack_samples
              /\ sample_count' = agg.sample_count
    /\ view' = NoView
    /\ UNCHANGED <<max_stacks, thrVars, rpc, items, copy_rooted, copy_stacks,
                   boundaries, caller_pc, sigVars>>

\* The call of a view method returns.
Returns(op, arg, result) ==
    /\ view' = [op |-> op, arg |-> arg, result |-> result]
    /\ UNCHANGED <<aggVars, thrVars, rpc, items, copy_rooted, copy_stacks,
                   boundaries, caller_pc, sigVars>>

CallRootedSamplesByFile ==
    Returns("rooted_samples_by_file", None,
            rooted_samples_by_file(rooted_leaf_counts))

CallRootedSamplesByLine ==
    \E filename \in Filenames :
        Returns("rooted_samples_by_line", filename,
                rooted_samples_by_line(rooted_leaf_counts, filename))

CallHotspots == Returns("hotspots", None, hotspots(rooted_leaf_counts))

CallFlameMap == Returns("flame_map", None, flame_map(stack_counts))

ViewInit ==
    /\ SigInit
    /\ handlers = [s \in Signals |-> "SIG_DFL"]

ViewNext ==
    \/ ViewPass
    \/ CallRootedSamplesByFile
    \/ CallRootedSamplesByLine
    \/ CallHotspots
    \/ CallFlameMap

ViewSpec == ViewInit /\ [][ViewNext]_vars

-----------------------------------------------------------------------------
(* Claims about the views *)

\* The stacks of the table that flame_map() folds into the key.
FoldedInto(key) == {s \in DOMAIN stack_counts : FlameKey(s) = key}

\* C15: the values of the map flame_map() returns sum to the sum of the
\* values of stack_counts, and the value of each key is the sum of the
\* counts of the stacks that fold into it.
C15_FlameMapKeepsCounts ==
    view.op = "flame_map"
       => /\ SumValues(view.result) = SumValues(stack_counts)
          /\ \A key \in DOMAIN view.result :
                view.result[key] =
                   SumValues([s \in FoldedInto(key) |-> stack_counts[s]])

\* flame_map() has returned for a table with two stacks of one key.
C15_Witness ==
    /\ view.op = "flame_map"
    /\ \E key \in DOMAIN view.result : Cardinality(FoldedInto(key)) > 1

\* The (leaf code, leaf line) pairs of the rooted table, over all roots.
LeafKeys == UNION {DOMAIN rooted_leaf_counts[r] : r \in DOMAIN rooted_leaf_counts}

\* The count of a leaf summed over all roots.
LeafTotal(key) ==
    SumValues([r \in {x \in DOMAIN rooted_leaf_counts :
                         key \in DOMAIN rooted_leaf_counts[x]}
                 |-> rooted_leaf_counts[r][key]])

\* C16: hotspots() returns every distinct (leaf code, leaf line) pair exactly
\* once, with its count summed over all roots, in non-increasing order of
\* count.
C16_HotspotsSummedAndSorted ==
    view.op = "hotspots"
       => LET h == view.result
          IN  /\ {h[n][1] : n \in DOMAIN h} = LeafKeys
              /\ Len(h) = Cardinality(LeafKeys)
              /\ \A n \in DOMAIN h : h[n][2] = LeafTotal(h[n][1])
              /\ \A n \in 1..(Len(h) - 1) : h[n][2] >= h[n + 1][2]

\* hotspots() has returned for a table in which a leaf is held under two
\* roots and the leaves have different totals.
C16_Witness ==
    /\ view.op = "hotspots"
    /\ \E key \in LeafKeys :
          Cardinality({r \in DOMAIN rooted_leaf_counts :
                          key \in DOMAIN rooted_leaf_counts[r]}) > 1
    /\ \E k1, k2 \in LeafKeys : LeafTotal(k1) > LeafTotal(k2)

-----------------------------------------------------------------------------
(* Claims about the counters at the pass boundaries, and the race in start() *)

\* No pass of sample() is under way.
AtPassBoundary == pc \notin {"loop", "count"}

\* C17: at every pass boundary the counts of stack_counts plus
\* skipped_stack_samples equal the counts of rooted_leaf_counts: a stack
\* that was skipped is counted in skipped_stack_samples and not in the table.
C17_SkippedNotInTable ==
    AtPassBoundary
       => SumValues(stack_counts) + skipped_stack_samples
             = SumNested(rooted_leaf_counts)

\* The leaf entries of a root that lie in the file at the line.
LeavesAt(root, filename, lineno) ==
    {key \in DOMAIN rooted_leaf_counts[root] :
        key[1].co_filename = filename /\ key[2] = lineno}

\* The line numbers of the leaf entries of a root in the file.
LinesOf(root, filename) ==
    {key[2] : key \in {k \in DOMAIN rooted_leaf_counts[root] :
                          k[1].co_filename = filename}}

\* C18: rooted_samples_by_line(file) returns, for every root and every line
\* of the file, the sum of the counts of the root's leaf entries in the file
\* at that line, so that the counts of a root sum to the count that
\* rooted_samples_by_file() gives for the root and the file.
C18_ByLineLosesNothing ==
    view.op = "rooted_samples_by_line"
       => \A root \in DOMAIN rooted_leaf_counts :
             LET lines == view.result[root]
             IN  /\ DOMAIN lines = LinesOf(root, view.arg)
                 /\ \A lineno \in DOMAIN lines :
                       lines[lineno] =
                          SumValues([key \in LeavesAt(root, view.arg, lineno)
                                        |-> rooted_leaf_counts[root][key]])
                 /\ SumValues(lines) =
                       DictGet(rooted_samples_by_file(rooted_leaf_counts)[root],
                               view.arg)

\* ThreadedSampler.start() called from several threads: the interpreter can
\* switch threads between any two of its statements.

\* line 163, flag clear: the caller goes on to line 165.
RaceCheck(c) ==
    /\ caller_pc[c] = "idle"
    /\ ~AlreadyStarted
    /\ caller_pc' = [caller_pc EXCEPT ![c] = "checked"]
    /\ UNCHANGED <<aggVars, thrVars, rpc, items, copy_rooted, copy_stacks,
                   boundaries, view, sigVars>>

\* lines 163-164, flag set: raise ValueError
RaceRaise(c) ==
    /\ caller_pc[c] = "idle"
    /\ AlreadyStarted
    /\ caller_pc' = [caller_pc EXCEPT ![c] = "raised"]
    /\ start_raised' = "ValueError"
    /\ UNCHANGED <<aggVars, started, stopping, spawned, pc, todo, frame,
                   stack, start_calls, count_at_stop, rpc, items, copy_rooted,
                   copy_stacks, boundaries, view, sigVars>>

\* line 165: self.started = True
RaceSet(c) ==
    /\ caller_pc[c] = "checked"
    /\ started' = TRUE
    /\ caller_pc' = [caller_pc EXCEPT ![c] = "set"]
    /\ UNCHANGED <<aggVars, stopping, spawned, pc, todo, frame, stack,
                   start_calls, start_raised, count_at_stop, rpc, items,
                   copy_rooted, copy_stacks, boundaries, view, sigVars>>

\* lines 166-168: a background thread running _run is started.
RaceSpawn(c) ==
    /\ caller_pc[c] = "set"
    /\ spawned' = spawned + 1
    /\ pc' = "wait"
    /\ caller_pc' = [caller_pc EXCEPT ![c] = "returned"]
    /\ UNCHANGED <<aggVars, started, stopping, todo, frame, stack,
                   start_calls, start_raised, count_at_stop, rpc, items,
                   copy_rooted, copy_stacks, boundaries, view, sigVars>>

RaceNext ==
    \E c \in Callers :
        \/ RaceCheck(c)
        \/ RaceRaise(c)
        \/ RaceSet(c)
        \/ RaceSpawn(c)

RaceSpec == Init /\ [][RaceNext]_vars

\* C19: when start() is called from several threads at the same time, at
\* most one background loop is spawned, and once all the calls have ended
\* every call but one has failed.
C19_OneLoopOnly ==
    /\ spawned <= 1
    /\ (\A c \in Callers : caller_pc[c] \in {"returned", "raised"})
          => Cardinality({c \in Callers : caller_pc[c] = "returned"}) = 1

-----------------------------------------------------------------------------
(* Claims about what a pass of the signal handler records *)

\* The step is a pass of sample() run by the handler of instance i.
HandlerPass(i) == sig'[i].agg.sample_count = sig[i].agg.sample_count + 1

\* C20: a pass driven by the handler records the stack of the thread it
\* interrupted: also when that thread is the only one of the program, the
\* pass adds an entry or a count to rooted_leaf_counts and to stack_counts.
C20_InterruptedThreadRecorded ==
    [][ \A i \in Instances :
            HandlerPass(i)
               => /\ SumNested(sig'[i].agg.rooted_leaf_counts)
                        > SumNested(sig[i].agg.rooted_leaf_counts)
                  /\ SumValues(sig'[i].agg.stack_counts)
                        > SumValues(sig[i].agg.stack_counts)
      ]_vars

=============================================================================
